---- MODULE Spec2Model ----
(***************************************************************************)
(* A model of go-getter's tar extraction (untar, tarDecompressor) and of   *)
(* its maven getter (MvnGetter).                                           *)
(*                                                                         *)
(* Strings are sequences of tokens; file paths are sequences of path       *)
(* segments counted from the filesystem root.  Time stamps are opaque      *)
(* tokens; "now" is the time at which the running extraction touches an    *)
(* object.                                                                 *)
(***************************************************************************)
EXTENDS Integers, Sequences, FiniteSets, TLC

\* The longest archive (number of entries) that is explored.
MaxEntries == 3

\* The permission bits untar and Decompress pass to os.MkdirAll (0755).
DirPerm == 493

-----------------------------------------------------------------------------
(* Paths: path/filepath                                                    *)

\* filepath.Clean on a rooted path: "." and "" vanish, ".." drops the
\* segment before it and is itself dropped at the root.
RECURSIVE CleanFrom(_, _)
CleanFrom(acc, segs) ==
    IF segs = <<>> THEN acc
    ELSE LET s == Head(segs)
             acc2 == IF s = "." \/ s = "" THEN acc
                     ELSE IF s = ".."
                          THEN (IF acc = <<>> THEN acc
                                ELSE SubSeq(acc, 1, Len(acc) - 1))
                          ELSE Append(acc, s)
         IN  CleanFrom(acc2, Tail(segs))

Clean(segs) == CleanFrom(<<>>, segs)

\* filepath.Join(p, name): concatenate, then Clean.
Join(p, name) == Clean(p \o name)

\* filepath.Dir of a clean rooted path.
Dir(p) == IF p = <<>> THEN <<>> ELSE SubSeq(p, 1, Len(p) - 1)

PrefixesOf(p) == {SubSeq(p, 1, k) : k \in 0..Len(p)}
ProperPrefixesOf(p) == PrefixesOf(p) \ {p}

-----------------------------------------------------------------------------
(* Archive entries: tar.Header as the code reads it                        *)

TypeReg == "TypeReg"
TypeDir == "TypeDir"
TypeSymlink == "TypeSymlink"
TypeXHeader == "TypeXHeader"
TypeXGlobalHeader == "TypeXGlobalHeader"

\* One header (and its payload) of variant v: the variant fixes the
\* permission bits, the two time stamps and the payload, all different
\* between variants and the two time stamps different from each other.
Hdr(name, typeflag, v) ==
    [Name |-> name, Typeflag |-> typeflag,
     Mode |-> IF v = 1 THEN 420 ELSE 384,
     AccessTime |-> IF v = 1 THEN "atime1" ELSE "atime2",
     ModTime |-> IF v = 1 THEN "mtime1" ELSE "mtime2",
     Data |-> IF typeflag = TypeReg
              THEN (IF v = 1 THEN <<"x">> ELSE <<"y", "z">>)
              ELSE <<>>]

Entries ==
    { Hdr(<<"f">>, TypeReg, 1),
      Hdr(<<"a", "f">>, TypeReg, 1), Hdr(<<"a", "f">>, TypeReg, 2),
      Hdr(<<"a">>, TypeReg, 2),
      Hdr(<<"..", "f">>, TypeReg, 1),
      Hdr(<<"a">>, TypeDir, 1), Hdr(<<"a">>, TypeDir, 2),
      Hdr(<<"a", "b">>, TypeDir, 1),
      Hdr(<<"s">>, TypeSymlink, 1),
      Hdr(<<"p">>, TypeXHeader, 1), Hdr(<<"g">>, TypeXGlobalHeader, 1) }

RECURSIVE SeqsUpTo(_, _)
SeqsUpTo(S, n) ==
    IF n = 0 THEN {<<>>}
    ELSE LET shorter == SeqsUpTo(S, n - 1)
         IN  shorter \cup {Append(s, e) : s \in {t \in shorter : Len(t) = n - 1}, e \in S}

Archives == SeqsUpTo(Entries, MaxEntries)

\* hdr.FileInfo().IsDir() and hdr.FileInfo().Mode()
IsDir(hdr) == hdr.Typeflag = TypeDir
FileMode(hdr) == hdr.Mode
\* IsExtendedHeader without the global header.
IsExtendedHeaderNotGlobal(hdr) == hdr.Typeflag = TypeXHeader
IsExtendedHeader(hdr) == hdr.Typeflag \in {TypeXGlobalHeader, TypeXHeader}

-----------------------------------------------------------------------------
(* The filesystem: os.Stat, os.MkdirAll, os.Create, io.Copy, os.Chmod,     *)
(* os.Chtimes                                                              *)

\* The destination of the extraction and the archive's own path.
Dst == <<"w", "d">>
Src == <<"src.tar">>

AllPaths ==
    UNION {PrefixesOf(Join(Dst, e.Name)) : e \in Entries} \cup PrefixesOf(Dst)
        \cup PrefixesOf(Src)

Absent == [kind |-> "none", content |-> <<>>, mode |-> 0,
           atime |-> "-", mtime |-> "-"]
NewDir(perm) == [kind |-> "dir", content |-> <<>>, mode |-> perm,
                 atime |-> "now", mtime |-> "now"]
NewFile == [kind |-> "file", content |-> <<>>, mode |-> 438,
            atime |-> "now", mtime |-> "now"]

Exists(f, p) == f[p].kind # "none"
IsDirectory(f, p) == f[p].kind = "dir"

\* os.IsNotExist(err) for the err of os.Stat(p): ENOENT, which is not what
\* Stat reports when a component of p is a regular file (ENOTDIR).
StatIsNotExist(f, p) ==
    /\ ~Exists(f, p)
    /\ \A q \in ProperPrefixesOf(p) : f[q].kind # "file"

\* Adding a name to a directory changes the directory's modification time.
Touch(f, p) == [f EXCEPT ![p].mtime = "now"]

\* An I/O state threaded through the calls of one step: the filesystem, the
\* log of the calls made, and the error of the first call that failed.
Call(op, path, phase, ok) ==
    [op |-> op, path |-> path, phase |-> phase, ok |-> ok,
     mode |-> 0, atime |-> "-", mtime |-> "-"]

\* Failed with every error dropped.
FailedNever(st) == FALSE

\* if err != nil
Failed(st) == st.err # "none"

Fail(st, call, err) ==
    [st EXCEPT !.log = Append(@, [call EXCEPT !.ok = FALSE]), !.err = err]

Succeed(st, call, f) == [st EXCEPT !.log = Append(@, call), !.fs = f]

\* os.MkdirAll(p, perm): nothing to do when p is a directory, an error when p
\* or one of its ancestors is a file, else every missing directory on the way
\* is made, each one touching its parent.
RECURSIVE MkdirAllFs(_, _, _)
MkdirAllFs(f, p, perm) ==
    IF Exists(f, p) THEN f
    ELSE LET g == MkdirAllFs(f, Dir(p), perm)
         IN  Touch([g EXCEPT ![p] = NewDir(perm)], Dir(p))

MkdirAll(st, p, perm, phase, inject) ==
    LET call == Call("MkdirAll", p, phase, TRUE)
    IN  IF Failed(st) THEN st
        ELSE IF inject \/ \E q \in PrefixesOf(p) : st.fs[q].kind = "file"
             THEN Fail(st, call, "FsError")
             ELSE Succeed(st, call, MkdirAllFs(st.fs, p, perm))

\* os.Create(p): fails on a directory and under a missing or non-directory
\* parent; truncates an existing file; else makes the file.
Create(st, p, phase, inject) ==
    LET call == Call("Create", p, phase, TRUE)
    IN  IF Failed(st) THEN st
        ELSE IF inject \/ IsDirectory(st.fs, p) \/ ~IsDirectory(st.fs, Dir(p)) \/ p = <<>>
             THEN Fail(st, call, "FsError")
             ELSE IF Exists(st.fs, p)
                  THEN Succeed(st, call, [st.fs EXCEPT ![p].content = <<>>, ![p].mtime = "now"])
                  ELSE Succeed(st, call, Touch([st.fs EXCEPT ![p] = NewFile], Dir(p)))

\* io.Copy(dstF, tarR): the entry's payload becomes the file's content.
Copy(st, p, data, phase, inject) ==
    LET call == Call("Copy", p, phase, TRUE)
    IN  IF Failed(st) THEN st
        ELSE IF inject THEN Fail(st, call, "FsError")
             ELSE Succeed(st, call, [st.fs EXCEPT ![p].content = data, ![p].mtime = "now"])

\* os.Chmod(p, mode)
Chmod(st, p, mode, phase, inject) ==
    LET call == [Call("Chmod", p, phase, TRUE) EXCEPT !.mode = mode]
    IN  IF Failed(st) THEN st
        ELSE IF inject \/ ~Exists(st.fs, p) THEN Fail(st, call, "FsError")
             ELSE Succeed(st, call, [st.fs EXCEPT ![p].mode = mode])

\* os.Chtimes(p, atime, mtime)
Chtimes(st, p, atime, mtime, phase, inject) ==
    LET call == [Call("Chtimes", p, phase, TRUE) EXCEPT !.atime = atime, !.mtime = mtime]
    IN  IF Failed(st) THEN st
        ELSE IF inject \/ ~Exists(st.fs, p) THEN Fail(st, call, "FsError")
             ELSE Succeed(st, call, [st.fs EXCEPT ![p].atime = atime, ![p].mtime = mtime])

-----------------------------------------------------------------------------
(* State                                                                   *)

VARIABLES
    archive,    \* the entries the tar reader will deliver, in stream order
    dir,        \* the dir argument: TRUE directory mode, FALSE single file
    pc,         \* where Decompress / untar stands
    pos,        \* how many entries tarR.Next() has delivered and untar handled
    done,       \* untar's done flag
    dirHdrs,    \* untar's dirHdrs slice
    k,          \* index of the next element of dirHdrs in the final loop
    fs,         \* the filesystem
    log,        \* every filesystem call made so far, in order
    handle,     \* the source file handle f of Decompress
    injected,   \* whether the environment (disk, reader) has failed a call
    result      \* "none" while running, else "ok" or the error returned

tarVars == <<archive, dir, pc, pos, done, dirHdrs, k, fs, log, handle,
             injected, result>>

VARIABLES
    goos,       \* the operating system of the build: "posix" or "windows"
    u,          \* the URL argument
    mdst,       \* the dst argument
    remote,     \* the maven-metadata.xml the repository would serve
    mpc,        \* where GetFile or Get stands
    artifactUrl,\* the local artifactUrl
    ver,        \* the local ver
    mvnMetaUrl, \* parseLastestSnapshotVersion's mvnMetaUrl
    tmpFile,    \* the temporary file: "none", "exists" or "removed"
    tmpContent, \* what the temporary file holds
    fetches,    \* the calls of g.HttpGet.GetFile so far, in order
    mresult     \* "none" while running, else "ok" or the error returned

mvnVars == <<goos, u, mdst, remote, mpc, artifactUrl, ver, mvnMetaUrl, tmpFile,
             tmpContent, fetches, mresult>>

vars == <<tarVars, mvnVars>>

\* The filesystem before Decompress runs: the root, the archive file when it
\* exists, and at the destination either nothing or a file left by an
\* earlier download.
StaleFile == [kind |-> "file", content |-> <<"old">>, mode |-> 438,
              atime |-> "old", mtime |-> "old"]
OldDir == [kind |-> "dir", content |-> <<>>, mode |-> DirPerm,
           atime |-> "old", mtime |-> "old"]

InitialFs(srcExists, stale) ==
    [p \in AllPaths |->
        IF p = <<>> THEN OldDir
        ELSE IF p = Src /\ srcExists THEN StaleFile
        ELSE IF p = Dir(Dst) /\ stale THEN OldDir
        ELSE IF p = Dst /\ stale THEN StaleFile
        ELSE Absent]

TarInit ==
    /\ dir \in BOOLEAN
    /\ \E srcExists \in BOOLEAN, stale \in BOOLEAN :
          /\ fs = InitialFs(srcExists, stale)
          /\ archive \in (IF srcExists THEN Archives ELSE {<<>>})
    /\ pc = "Decompress"
    /\ pos = 0
    /\ done = FALSE
    /\ dirHdrs = <<>>
    /\ k = 1
    /\ log = <<>>
    /\ handle = "none"
    /\ injected = FALSE
    /\ result = "none"

-----------------------------------------------------------------------------
(* tarDecompressor.Decompress                                              *)

IO == [fs |-> fs, log |-> log, err |-> "none"]

\* The directory that must exist before extraction begins.
MkdirTarget == IF dir THEN Dst ELSE Dir(Dst)

\* mkdir := dst, or filepath.Dir(dst) in single-file mode; os.MkdirAll(mkdir).
DecompressMkdir(inject) ==
    /\ pc = "Decompress"
    /\ LET st == MkdirAll(IO, MkdirTarget, DirPerm, "decompress", inject)
       IN  /\ fs' = st.fs
           /\ log' = st.log
           /\ injected' = inject
           /\ IF Failed(st)
              THEN pc' = "Exit" /\ result' = st.err
              ELSE pc' = "Open" /\ result' = result
    /\ UNCHANGED <<archive, dir, pos, done, dirHdrs, k, handle>>
    /\ UNCHANGED mvnVars

\* f, err := os.Open(src); defer f.Close()
DecompressOpen(inject) ==
    /\ pc = "Open"
    /\ injected' = inject
    /\ IF inject \/ fs[Src].kind # "file"
       THEN pc' = "Exit" /\ result' = "OpenError" /\ handle' = handle
       ELSE pc' = "Next" /\ result' = result /\ handle' = "open"
    /\ UNCHANGED <<archive, dir, pos, done, dirHdrs, k, fs, log>>
    /\ UNCHANGED mvnVars

\* DecompressClose closing the handle only when untar succeeded.
DecompressCloseOnSuccess ==
    /\ pc = "Close"
    /\ handle' = IF result = "ok" THEN "closed" ELSE handle
    /\ pc' = "Exit"
    /\ UNCHANGED <<archive, dir, pos, done, dirHdrs, k, fs, log, injected, result>>
    /\ UNCHANGED mvnVars

\* The deferred f.Close() runs when untar has returned.
DecompressClose ==
    /\ pc = "Close"
    /\ handle' = "closed"
    /\ pc' = "Exit"
    /\ UNCHANGED <<archive, dir, pos, done, dirHdrs, k, fs, log, injected, result>>
    /\ UNCHANGED mvnVars

-----------------------------------------------------------------------------
(* untar                                                                   *)

\* untar returns err (or nil, as "ok") to Decompress.
Return(err) == pc' = "Close" /\ result' = err

\* Entry being handled, and the on-disk path untar computes for it.
CurHdr == archive[pos + 1]
\* EntryPath joining the entry's name to dst in both modes.
EntryPathAlwaysJoined(hdr) == Join(Dst, hdr.Name)

EntryPath(hdr) == IF dir THEN Join(Dst, hdr.Name) ELSE Dst

\* IsEmptyArchive with the test left out.
IsEmptyArchiveNever == FALSE

\* At io.EOF: nothing was decoded, the archive counts as empty.
IsEmptyArchive == ~done

\* RecordDir keeping one header for each name.
RecordDirOncePerName(hdrs, hdr) ==
    IF \E n \in 1..Len(hdrs) : hdrs[n].Name = hdr.Name THEN hdrs
    ELSE Append(hdrs, hdr)

\* dirHdrs = append(dirHdrs, hdr)
RecordDir(hdrs, hdr) == Append(hdrs, hdr)

\* tarR.Next() returns io.EOF.
ReadEOF ==
    /\ pc = "Next"
    /\ pos = Len(archive)
    /\ IF IsEmptyArchive
       THEN Return("EmptyArchive") /\ k' = k
       ELSE pc' = "Fixup" /\ k' = 1 /\ result' = result
    /\ UNCHANGED <<archive, dir, pos, done, dirHdrs, fs, log, handle, injected>>
    /\ UNCHANGED mvnVars

\* tarR.Next() returns an error other than io.EOF (a corrupt or truncated
\* stream, a failing read).
ReadError ==
    /\ pc = "Next"
    /\ Return("ReadError")
    /\ injected' = TRUE
    /\ UNCHANGED <<archive, dir, pos, done, dirHdrs, k, fs, log, handle>>
    /\ UNCHANGED mvnVars

\* An extended or global extended header: continue.
SkipExtendedHeader ==
    /\ pc = "Next"
    /\ pos < Len(archive)
    /\ IsExtendedHeader(CurHdr)
    /\ pos' = pos + 1
    /\ UNCHANGED <<archive, dir, pc, done, dirHdrs, k, fs, log, handle, injected, result>>
    /\ UNCHANGED mvnVars

\* RejectsDirectory with the test of the mode left out.
RejectsDirectoryNever == FALSE

\* if !dir: a directory entry is an error in single-file mode.
RejectsDirectory == ~dir

\* A directory entry: an error in single-file mode, else MkdirAll and the
\* header is kept for the final loop.
DirectoryEntry(inject) ==
    /\ pc = "Next"
    /\ pos < Len(archive)
    /\ ~IsExtendedHeader(CurHdr)
    /\ IsDir(CurHdr)
    /\ inject => dir
    /\ injected' = inject
    /\ IF RejectsDirectory
       THEN /\ Return("ExpectedSingleFile")
            /\ UNCHANGED <<fs, log, dirHdrs, pos>>
       ELSE LET st == MkdirAll(IO, EntryPath(CurHdr), DirPerm, "extract", inject)
            IN  /\ fs' = st.fs
                /\ log' = st.log
                /\ IF Failed(st)
                   THEN Return(st.err) /\ UNCHANGED <<dirHdrs, pos>>
                   ELSE /\ dirHdrs' = RecordDir(dirHdrs, CurHdr)
                        /\ pos' = pos + 1
                        /\ UNCHANGED <<pc, result>>
    /\ UNCHANGED <<archive, dir, done, k, handle>>
    /\ UNCHANGED mvnVars

\* EnsureParent relying on the directory entry having come first.
EnsureParentNever(st, path, fault) == st

\* The parent directory of a file entry is made when os.Stat says it does
\* not exist.
EnsureParent(st, path, fault) ==
    IF StatIsNotExist(st.fs, Dir(path))
    THEN MkdirAll(st, Dir(path), DirPerm, "extract", fault = "MkdirAll")
    ELSE st

\* WriteFile with the two times handed to os.Chtimes in the wrong order.
WriteFileSwappedTimes(st, hdr, path, fault) ==
    LET c1 == Create(st, path, "extract", fault = "Create")
        c2 == Copy(c1, path, hdr.Data, "extract", fault = "Copy")
        c3 == Chmod(c2, path, FileMode(hdr), "extract", fault = "Chmod")
    IN  Chtimes(c3, path, hdr.ModTime, hdr.AccessTime, "extract", fault = "Chtimes")

\* os.Create, io.Copy, os.Chmod, os.Chtimes of one file entry.
WriteFile(st, hdr, path, fault) ==
    LET c1 == Create(st, path, "extract", fault = "Create")
        c2 == Copy(c1, path, hdr.Data, "extract", fault = "Copy")
        c3 == Chmod(c2, path, FileMode(hdr), "extract", fault = "Chmod")
    IN  Chtimes(c3, path, hdr.AccessTime, hdr.ModTime, "extract", fault = "Chtimes")

\* AlreadyDecoded with the mode tested the wrong way round.
AlreadyDecodedWrongMode == dir /\ done

\* Whether a second file in single-file mode is refused.
AlreadyDecoded == ~dir /\ done

Faults == {"none", "MkdirAll", "Create", "Copy", "Chmod", "Chtimes"}

\* Any entry that is neither an extended header nor a directory is written
\* as a file.
FileEntry(fault) ==
    /\ pc = "Next"
    /\ pos < Len(archive)
    /\ ~IsExtendedHeader(CurHdr)
    /\ ~IsDir(CurHdr)
    /\ LET path == EntryPath(CurHdr)
           st1 == EnsureParent(IO, path, fault)
           st2 == IF Failed(st1) \/ AlreadyDecoded THEN st1
                  ELSE WriteFile(st1, CurHdr, path, fault)
           \* the same step on a disk that fails no call
           ok1 == EnsureParent(IO, path, "none")
           ok2 == IF Failed(ok1) \/ AlreadyDecoded THEN ok1
                  ELSE WriteFile(ok1, CurHdr, path, "none")
       IN  /\ fault # "none" => st2 # ok2
           /\ injected' = (fault # "none")
           /\ fs' = st2.fs
           /\ log' = st2.log
           /\ IF Failed(st2)
              THEN Return(st2.err) /\ UNCHANGED <<done, pos>>
              ELSE IF AlreadyDecoded
                   THEN Return("MultipleFiles") /\ UNCHANGED <<done, pos>>
                   ELSE /\ done' = TRUE
                        /\ pos' = pos + 1
                        /\ UNCHANGED <<pc, result>>
    /\ UNCHANGED <<archive, dir, dirHdrs, k, handle>>
    /\ UNCHANGED mvnVars

\* One round of the final loop: os.Chtimes of a recorded directory.
ApplyDirTimes(inject) ==
    /\ pc = "Fixup"
    /\ k <= Len(dirHdrs)
    /\ LET dirHdr == dirHdrs[k]
           st == Chtimes(IO, Join(Dst, dirHdr.Name), dirHdr.AccessTime,
                         dirHdr.ModTime, "fixup", inject)
       IN  /\ fs' = st.fs
           /\ log' = st.log
           /\ injected' = inject
           /\ IF Failed(st)
              THEN Return(st.err) /\ k' = k
              ELSE k' = k + 1 /\ UNCHANGED <<pc, result>>
    /\ UNCHANGED <<archive, dir, pos, done, dirHdrs, handle>>
    /\ UNCHANGED mvnVars

\* return nil
ReturnNil ==
    /\ pc = "Fixup"
    /\ k > Len(dirHdrs)
    /\ Return("ok")
    /\ UNCHANGED <<archive, dir, pos, done, dirHdrs, k, fs, log, handle, injected>>
    /\ UNCHANGED mvnVars

TarNext ==
    \/ \E inject \in BOOLEAN : DecompressMkdir(inject)
    \/ \E inject \in BOOLEAN : DecompressOpen(inject)
    \/ DecompressClose
    \/ ReadEOF
    \/ ReadError
    \/ SkipExtendedHeader
    \/ \E inject \in BOOLEAN : DirectoryEntry(inject)
    \/ \E fault \in Faults : FileEntry(fault)
    \/ \E inject \in BOOLEAN : ApplyDirTimes(inject)
    \/ ReturnNil

-----------------------------------------------------------------------------
(* Strings and URLs as MvnGetter uses them.  A string is a sequence of     *)
(* tokens; ".", "/", "-", "?", "&", "=" and "-SNAPSHOT" are tokens of      *)
(* their own.                                                              *)

\* strings.Replace(s, old, new, 1): the first occurrence only.
ReplaceFirst(s, old, new) ==
    IF \A i \in 1..Len(s) : s[i] # old THEN s
    ELSE LET i == CHOOSE j \in 1..Len(s) :
                      s[j] = old /\ \A h \in 1..(j - 1) : s[h] # old
         IN  [s EXCEPT ![i] = new]

\* strings.Replace(s, old, new, -1) for a one-token old.
RECURSIVE ReplaceAll(_, _, _)
ReplaceAll(s, old, new) ==
    IF s = <<>> THEN <<>>
    ELSE <<IF Head(s) = old THEN new ELSE Head(s)>> \o ReplaceAll(Tail(s), old, new)

\* strings.HasSuffix(s, suffix) for a one-token suffix.
HasSuffix(s, suffix) == s # <<>> /\ s[Len(s)] = suffix

IndicesOfToken(s, t) == {i \in 1..Len(s) : s[i] = t}
Min(S) == CHOOSE x \in S : \A y \in S : x <= y
Max(S) == CHOOSE x \in S : \A y \in S : x >= y

\* strings.Split(s, sep) for a one-token sep.
RECURSIVE SplitOn(_, _)
SplitOn(s, sep) ==
    IF IndicesOfToken(s, sep) = {} THEN <<s>>
    ELSE LET i == Min(IndicesOfToken(s, sep))
         IN  <<SubSeq(s, 1, i - 1)>> \o SplitOn(SubSeq(s, i + 1, Len(s)), sep)

\* url.URL.String(): scheme and host, the path, then "?" and the raw query
\* when there is one.
UrlString(l) ==
    <<l.Host>> \o l.Path \o (IF l.RawQuery = <<>> THEN <<>> ELSE <<"?">> \o l.RawQuery)

\* url.Parse of such a string: the path ends at the first "?".
UrlParse(s) ==
    LET rest == Tail(s)
        q == IndicesOfToken(rest, "?")
    IN  IF q = {} THEN [Host |-> Head(s), Path |-> rest, RawQuery |-> <<>>]
        ELSE [Host |-> Head(s), Path |-> SubSeq(rest, 1, Min(q) - 1),
              RawQuery |-> SubSeq(rest, Min(q) + 1, Len(rest))]

\* u.Query().Get(key): the value of the first "key=value" of the raw query,
\* the empty string when there is none.
QueryGet(l, key) ==
    LET pairs == SplitOn(l.RawQuery, "&")
        hits == {i \in 1..Len(pairs) : pairs[i] # <<>> /\ pairs[i][1] = key}
    IN  IF hits = {} THEN <<>>
        ELSE LET pair == pairs[Min(hits)]
             IN  IF Len(pair) >= 2 /\ pair[2] = "=" THEN SubSeq(pair, 3, Len(pair))
                 ELSE <<>>

\* filepath.Base: the last element of the path, trailing separators dropped.
RECURSIVE TrimSlashes(_)
TrimSlashes(s) ==
    IF s # <<>> /\ s[Len(s)] = "/" THEN TrimSlashes(SubSeq(s, 1, Len(s) - 1)) ELSE s

Base(s) ==
    IF s = <<>> THEN <<".">>
    ELSE LET t == TrimSlashes(s)
             sl == IndicesOfToken(t, "/")
         IN  IF t = <<>> THEN <<"/">>
             ELSE IF sl = {} THEN t
             ELSE SubSeq(t, Max(sl) + 1, Len(t))

\* StrDir taking the whole of its argument for a directory.
StrDirWhole(s) == IF TrimSlashes(s) = <<>> THEN <<"/">> ELSE TrimSlashes(s)

\* filepath.Dir: all but the last element, cleaned.
StrDir(s) ==
    LET sl == IndicesOfToken(s, "/")
    IN  IF sl = {} THEN <<".">>
        ELSE LET d == TrimSlashes(SubSeq(s, 1, Max(sl)))
             IN  IF d = <<>> THEN <<"/">> ELSE d

\* filepath.Join(d, name) of a cleaned directory and one element.
StrJoin(d, name) ==
    IF d = <<".">> THEN name
    ELSE IF d = <<"/">> THEN d \o name
    ELSE d \o <<"/">> \o name

-----------------------------------------------------------------------------
(* MvnGetter.GetFile                                                       *)

Snapshot == "-SNAPSHOT"

GroupIds == {<<>>, <<"org">>, <<"org", ".", "example">>, <<"a", ".", "b", ".", "c">>}
ArtifactIds == {<<>>, <<"test">>}
Versions == {<<>>, <<"1.0">>, <<"1.0", Snapshot>>, <<Snapshot, "x">>}
ArtTypes == {<<>>, <<"pom">>, <<"tar", "/", "gz">>}
BasePaths == {<<>>, <<"/", "repo">>}
MvnDsts == {<<"/", "w", "/", "d">>, <<"d">>, <<"/", "w", "/", "d", "/">>}

Param(key, value) == IF value = <<>> THEN <<>> ELSE <<<<key, "=">> \o value>>

RECURSIVE JoinWith(_, _)
JoinWith(parts, sep) ==
    IF parts = <<>> THEN <<>>
    ELSE IF Len(parts) = 1 THEN parts[1]
    ELSE parts[1] \o <<sep>> \o JoinWith(Tail(parts), sep)

CoordinateUrl(base, g, a, v, t) ==
    [Host |-> "http://host", Path |-> base,
     RawQuery |-> JoinWith(Param("groupId", g) \o Param("artifactId", a)
                             \o Param("version", v) \o Param("type", t), "&")]

\* The same URL with every parameter written out, an empty one as "key=".
ParamBlank(key, value) == <<<<key, "=">> \o value>>

CoordinateUrlBlank(base, g, a, v, t) ==
    [Host |-> "http://host", Path |-> base,
     RawQuery |-> JoinWith(ParamBlank("groupId", g) \o ParamBlank("artifactId", a)
                             \o ParamBlank("version", v) \o ParamBlank("type", t), "&")]

\* A snapshotVersion element of the metadata.
SnapshotVersion(value) == [Extension |-> <<"jar">>, Value |-> value]
Build1 == <<"1.0", "-", "20240101.010101", "-", "1">>
Build2 == <<"1.0", "-", "20240202.020202", "-", "2">>

\* The documents the repository may serve.  versions holds the
\* snapshotVersion elements that xml.Unmarshal decodes from the document:
\* all of them when it is well-formed, those that are complete before the
\* first syntax error when it is not.
Documents ==
    { [wellFormed |-> TRUE, versions |-> <<>>],
      [wellFormed |-> TRUE, versions |-> <<SnapshotVersion(Build1)>>],
      [wellFormed |-> TRUE,
       versions |-> <<SnapshotVersion(Build2), SnapshotVersion(Build1)>>],
      [wellFormed |-> FALSE, versions |-> <<>>],
      [wellFormed |-> FALSE, versions |-> <<SnapshotVersion(Build1)>>] }

EmptyFile == [wellFormed |-> FALSE, versions |-> <<>>]
NoUrl == [Host |-> "", Path |-> <<>>, RawQuery |-> <<>>]

MvnInit ==
    /\ \E base \in BasePaths, g \in GroupIds, a \in ArtifactIds,
          v \in Versions, t \in ArtTypes :
          u \in {CoordinateUrl(base, g, a, v, t), CoordinateUrlBlank(base, g, a, v, t)}
    /\ goos \in {"posix", "windows"}
    /\ mdst \in MvnDsts
    /\ remote \in Documents
    /\ mpc \in {"GetFile", "Get"}
    /\ artifactUrl = NoUrl
    /\ ver = <<>>
    /\ mvnMetaUrl = NoUrl
    /\ tmpFile = "none"
    /\ tmpContent = EmptyFile
    /\ fetches = <<>>
    /\ mresult = "none"

\* fmt.Sprintf("/%s/%s/%s", strings.Replace(groupId, ".", "/", -1), artifactId, version)
CoordinatePath(groupId, artifactId, version) ==
    <<"/">> \o ReplaceAll(groupId, ".", "/") \o <<"/">> \o artifactId
        \o <<"/">> \o version

\* strings.HasSuffix(version, "-SNAPSHOT")
IsSnapshot(version) == HasSuffix(version, Snapshot)

\* fmt.Sprintf("/%s-%s.%s", artifactId, ver, artType)
ArtifactFile(artifactId, v, artType) ==
    <<"/">> \o artifactId \o <<"-">> \o v \o <<".">> \o artType

\* The artifact type, "jar" when the URL names none.
ArtType(url) == IF QueryGet(url, "type") = <<>> THEN <<"jar">> ELSE QueryGet(url, "type")

\* One call of g.HttpGet.GetFile(dst, url) and how it ended.
Fetch(dst, url, ok) == [dst |-> dst, url |-> url, ok |-> ok]

\* MissingParameter testing version before groupId and artifactId.
MissingParameterVersionFirst(groupId, artifactId, version) ==
    IF version = <<>> THEN "version is required"
    ELSE IF groupId = <<>> THEN "groupId is required"
    ELSE IF artifactId = <<>> THEN "artifactId is required"
    ELSE "none"

\* The three tests of the required query parameters, in the order of the
\* code: the error of the first one that is empty, "none" when all are set.
MissingParameter(groupId, artifactId, version) ==
    IF groupId = <<>> THEN "groupId is required"
    ELSE IF artifactId = <<>> THEN "artifactId is required"
    ELSE IF version = <<>> THEN "version is required"
    ELSE "none"

\* GetFile up to the point where the version is known to be a snapshot or
\* not: the required parameters, artifactUrl, ver.
MvnParameters ==
    /\ mpc = "GetFile"
    /\ LET groupId == QueryGet(u, "groupId")
           artifactId == QueryGet(u, "artifactId")
           version == QueryGet(u, "version")
           missing == MissingParameter(groupId, artifactId, version)
           parsed == UrlParse(UrlString(u))
       IN  IF missing # "none"
           THEN mpc' = "Exit" /\ mresult' = missing
                /\ UNCHANGED <<artifactUrl, ver>>
           ELSE /\ artifactUrl' =
                      [parsed EXCEPT !.RawQuery = <<>>,
                                     !.Path = @ \o CoordinatePath(groupId, artifactId, version)]
                /\ ver' = version
                /\ mpc' = IF IsSnapshot(version) THEN "TempFile" ELSE "Download"
                /\ mresult' = mresult
    /\ UNCHANGED <<goos, u, mdst, remote, mvnMetaUrl, tmpFile, tmpContent, fetches>>
    /\ UNCHANGED tarVars

\* parseLastestSnapshotVersion: mvnMetaUrl and ioutil.TempFile.
MvnTempFile(ok) ==
    /\ mpc = "TempFile"
    /\ mvnMetaUrl' = [UrlParse(UrlString(artifactUrl))
                         EXCEPT !.Path = @ \o <<"/", "maven-metadata.xml">>]
    /\ IF ok
       THEN tmpFile' = "exists" /\ mpc' = "FetchMetadata" /\ mresult' = mresult
       ELSE tmpFile' = tmpFile /\ mpc' = "Exit" /\ mresult' = "TempFileError"
    /\ UNCHANGED <<goos, u, mdst, remote, artifactUrl, ver, tmpContent, fetches>>
    /\ UNCHANGED tarVars

\* The deferred os.Remove(mvnMetaFile.Name()), its error dropped. The handle
\* mvnMetaFile that ioutil.TempFile returned is never closed, so the file is
\* still open when it is removed: POSIX unlinks an open file, Windows
\* refuses with a sharing violation and the file stays.
RemoveTmp == tmpFile' = IF goos = "posix" THEN "removed" ELSE tmpFile

\* g.HttpGet.GetFile(mvnMetaFile.Name(), mvnMetaUrl)
MvnFetchMetadata(ok) ==
    /\ mpc = "FetchMetadata"
    /\ fetches' = Append(fetches, Fetch(<<"tmp", "/", "maven-metadata">>, mvnMetaUrl, ok))
    /\ IF ok
       THEN /\ tmpContent' = remote
            /\ mpc' = "ReadMetadata"
            /\ UNCHANGED <<tmpFile, mresult>>
       ELSE /\ RemoveTmp
            /\ mpc' = "Exit"
            /\ mresult' = "MetadataFetchError"
            /\ UNCHANGED tmpContent
    /\ UNCHANGED <<goos, u, mdst, remote, artifactUrl, ver, mvnMetaUrl>>
    /\ UNCHANGED tarVars

\* xml.Unmarshal(mvnMetaXml, &meta) with its error dropped, then
\* meta.Versioning.SnapshotVersions.VersionList.
VersionList(doc) == doc.versions

\* SnapshotResult taking the last listed version.
SnapshotResultLast(vers) ==
    IF Len(vers) = 0 THEN [err |-> "NoSnapshotVersions", ver |-> <<>>]
    ELSE [err |-> "none", ver |-> vers[Len(vers)].Value]

\* SnapshotResult returning an empty version and no error on an empty list.
SnapshotResultNoError(vers) ==
    IF Len(vers) = 0 THEN [err |-> "none", ver |-> <<>>]
    ELSE [err |-> "none", ver |-> vers[1].Value]

\* The end of parseLastestSnapshotVersion: an error when the list is empty,
\* else vers[0].Value.
SnapshotResult(vers) ==
    IF Len(vers) = 0 THEN [err |-> "NoSnapshotVersions", ver |-> <<>>]
    ELSE [err |-> "none", ver |-> vers[1].Value]

\* ioutil.ReadFile, xml.Unmarshal and the choice of the version.
MvnReadMetadata(ok) ==
    /\ mpc = "ReadMetadata"
    /\ RemoveTmp
    /\ LET res == SnapshotResult(VersionList(tmpContent))
       IN  IF ~ok
           THEN mpc' = "Exit" /\ mresult' = "ReadError" /\ ver' = ver
           ELSE IF res.err # "none"
           THEN mpc' = "Exit" /\ mresult' = res.err /\ ver' = ver
           ELSE mpc' = "Download" /\ mresult' = mresult /\ ver' = res.ver
    /\ UNCHANGED <<goos, u, mdst, remote, artifactUrl, mvnMetaUrl, tmpContent, fetches>>
    /\ UNCHANGED tarVars

\* DownloadResult reporting success whatever the fetch returned.
DownloadResultSwallowed(ok) == "ok"

\* return g.HttpGet.GetFile(dstFile, artifactUrl): GetFile returns what the
\* artifact fetch returned.
DownloadResult(ok) == IF ok THEN "ok" ELSE "ArtifactFetchError"

\* The final artifact URL, the local file name and the download itself.
MvnDownload(ok) ==
    /\ mpc = "Download"
    /\ LET final == [artifactUrl EXCEPT
                        !.Path = @ \o ArtifactFile(QueryGet(u, "artifactId"), ver, ArtType(u))]
           dstFile == StrJoin(StrDir(mdst), Base(final.Path))
       IN  /\ artifactUrl' = final
           /\ fetches' = Append(fetches, Fetch(dstFile, final, ok))
    /\ mpc' = "Exit"
    /\ mresult' = DownloadResult(ok)
    /\ UNCHANGED <<goos, u, mdst, remote, ver, mvnMetaUrl, tmpFile, tmpContent>>
    /\ UNCHANGED tarVars

\* MvnGet handing the request to GetFile.
MvnGetDelegates ==
    /\ mpc = "Get"
    /\ mpc' = "GetFile"
    /\ UNCHANGED <<goos, u, mdst, remote, artifactUrl, ver, mvnMetaUrl, tmpFile,
                   tmpContent, fetches, mresult>>
    /\ UNCHANGED tarVars

\* MvnGetter.Get: the error, whatever dst and u are.
MvnGet ==
    /\ mpc = "Get"
    /\ mpc' = "ExitGet"
    /\ mresult' = "MvnGetter does not support download folder."
    /\ UNCHANGED <<goos, u, mdst, remote, artifactUrl, ver, mvnMetaUrl, tmpFile,
                   tmpContent, fetches>>
    /\ UNCHANGED tarVars

MvnNext ==
    \/ MvnGet
    \/ MvnParameters
    \/ \E ok \in BOOLEAN : MvnTempFile(ok)
    \/ \E ok \in BOOLEAN : MvnFetchMetadata(ok)
    \/ \E ok \in BOOLEAN : MvnReadMetadata(ok)
    \/ \E ok \in BOOLEAN : MvnDownload(ok)

-----------------------------------------------------------------------------
(* Specifications                                                          *)

MvnIdle ==
    /\ goos = "posix" /\ u = NoUrl /\ mdst = <<>> /\ remote = EmptyFile /\ mpc = "Idle"
    /\ artifactUrl = NoUrl /\ ver = <<>> /\ mvnMetaUrl = NoUrl
    /\ tmpFile = "none" /\ tmpContent = EmptyFile /\ fetches = <<>>
    /\ mresult = "none"

TarIdle ==
    /\ archive = <<>> /\ dir = FALSE /\ pc = "Idle" /\ pos = 0 /\ done = FALSE
    /\ dirHdrs = <<>> /\ k = 1 /\ fs = InitialFs(FALSE, FALSE) /\ log = <<>>
    /\ handle = "none" /\ injected = FALSE /\ result = "none"

\* Decompress and untar on every archive, mode and initial disk.
Init == TarInit /\ MvnIdle
Spec == Init /\ [][TarNext]_vars

\* MvnGetter.GetFile and MvnGetter.Get on every coordinate URL, destination
\* and repository.
InitMvn == MvnInit /\ TarIdle
SpecMvn == InitMvn /\ [][MvnNext]_vars

-----------------------------------------------------------------------------
(* Properties of untar                                                     *)

\* untar was invoked and has returned.
UntarReturned == pc \in {"Close", "Exit"} /\ handle # "none"

IndicesOf(a, flags) == {i \in 1..Len(a) : a[i].Typeflag \in flags}
MetaFlags == {TypeXHeader, TypeXGlobalHeader}

\* Entries untar writes as a file: all but headers and directories.
IsFileLike(hdr) == hdr.Typeflag \notin (MetaFlags \cup {TypeDir})
FileLikeBefore(a, n) == {i \in 1..(n - 1) : IsFileLike(a[i])}

\* An archive of exactly one regular file and, besides it, nothing but
\* extended and global extended headers.
IsSingleFileArchive(a) ==
    /\ Cardinality(IndicesOf(a, {TypeReg})) = 1
    /\ IndicesOf(a, MetaFlags \cup {TypeReg}) = 1..Len(a)

TheFile(a) == a[CHOOSE i \in 1..Len(a) : a[i].Typeflag = TypeReg]

HoldsEntry(node, hdr) ==
    /\ node.kind = "file"
    /\ node.content = hdr.Data
    /\ node.mode = hdr.Mode
    /\ node.atime = hdr.AccessTime
    /\ node.mtime = hdr.ModTime

\* The calls untar itself has made (Decompress's own MkdirAll left out).
UntarCalls == SelectSeq(log, LAMBDA c : c.phase # "decompress")

HasDirEntry(a) == IndicesOf(a, {TypeDir}) # {}

\* C2 as claimed: in single-file mode every archive with a directory entry,
\* at any position, ends in the 'expected a single file' error with nothing
\* written by untar (the reader and the disk failing no call).
C2_Original ==
    (UntarReturned /\ ~dir /\ HasDirEntry(archive) /\ ~injected)
        => (result = "ExpectedSingleFile" /\ UntarCalls = <<>>)

\* The first entry that is not an extended/global header is a directory.
DirComesFirst(a) ==
    \E i \in IndicesOf(a, {TypeDir}) :
        \A j \in 1..(i - 1) : a[j].Typeflag \in MetaFlags

\* C2 as amended: in single-file mode an archive with a directory entry never
\* extracts successfully; when only extended/global headers precede its first
\* directory entry and the reader delivers the entries, the error is
\* 'expected a single file' and untar has made no filesystem call; when
\* another entry precedes it and no call is failed by the reader or the disk,
\* the error is 'expected a single file' or 'got multiple' and a file has
\* been written at dst.
C2_DirectoryRejected ==
    (UntarReturned /\ ~dir /\ HasDirEntry(archive))
        => /\ result # "ok"
           /\ (DirComesFirst(archive) /\ result # "ReadError")
                 => (result = "ExpectedSingleFile" /\ UntarCalls = <<>>)
           /\ (~DirComesFirst(archive) /\ ~injected)
                 => /\ result \in {"ExpectedSingleFile", "MultipleFiles"}
                    /\ \E c \in 1..Len(log) :
                          log[c].op = "Copy" /\ log[c].path = Dst /\ log[c].ok
                    /\ fs[Dst].kind = "file"

\* C2 witness: a directory entry after a header entry was refused.
C2_Witness ==
    /\ UntarReturned /\ ~dir /\ DirComesFirst(archive)
    /\ Len(archive) >= 2 /\ archive[1].Typeflag \in MetaFlags
    /\ result = "ExpectedSingleFile"

\* C3 as claimed: in single-file mode every archive with two or more
\* regular-file entries ends in the 'got multiple' error, whatever is
\* interleaved (the reader and the disk failing no call).
C3_Original ==
    (UntarReturned /\ ~dir /\ Cardinality(IndicesOf(archive, {TypeReg})) >= 2
        /\ ~injected)
        => result = "MultipleFiles"

\* No directory entry comes before the second regular-file entry.
NoDirBeforeSecondFile(a) ==
    \E i, j \in IndicesOf(a, {TypeReg}) :
        /\ i < j
        /\ \A d \in 1..j : a[d].Typeflag # TypeDir

\* A directory entry comes before the second entry that is written as a file.
DirBeforeSecondWrite(a) ==
    \E d \in IndicesOf(a, {TypeDir}) : Cardinality(FileLikeBefore(a, d)) <= 1

\* C3 as amended: in single-file mode an archive with two or more
\* regular-file entries never extracts successfully; when neither the reader
\* nor the disk fails a call, the error is 'got multiple' if no directory
\* entry precedes the second regular-file entry, and 'expected a single file'
\* if a directory entry precedes the second entry that is written as a file.
C3_MultipleFilesRejected ==
    (UntarReturned /\ ~dir /\ Cardinality(IndicesOf(archive, {TypeReg})) >= 2)
        => /\ result # "ok"
           /\ (NoDirBeforeSecondFile(archive) /\ ~injected)
                 => result = "MultipleFiles"
           /\ (DirBeforeSecondWrite(archive) /\ ~injected)
                 => result = "ExpectedSingleFile"

\* C3 witness: the second file, behind an interleaved header entry, was
\* refused after the first one had been written.
C3_Witness ==
    /\ UntarReturned /\ ~dir /\ result = "MultipleFiles"
    /\ Len(archive) = 3
    /\ archive[1].Typeflag = TypeReg
    /\ archive[2].Typeflag \in MetaFlags
    /\ archive[3].Typeflag = TypeReg
    /\ fs[Dst].content = archive[1].Data

\* Directory mode: the path of an entry, and the pairs (i, j) where a
\* regular-file entry i comes before the directory entry j that contains it.
PathOf(hdr) == Join(Dst, hdr.Name)

FileBeforeItsDir(a) ==
    {ij \in (1..Len(a)) \X (1..Len(a)) :
        /\ ij[1] < ij[2]
        /\ a[ij[1]].Typeflag = TypeReg
        /\ a[ij[2]].Typeflag = TypeDir
        /\ PathOf(a[ij[2]]) \in ProperPrefixesOf(PathOf(a[ij[1]]))}

HasTimes(node, hdr) == node.atime = hdr.AccessTime /\ node.mtime = hdr.ModTime

\* C4 as claimed: in directory mode, whenever a regular-file entry appears
\* before the directory entry that contains it, untar succeeds, the file
\* carries its entry's times and the directory carries its entry's times
\* (the reader and the disk failing no call).
C4_Original ==
    (UntarReturned /\ dir /\ ~injected)
        => \A ij \in FileBeforeItsDir(archive) :
              /\ result = "ok"
              /\ HasTimes(fs[PathOf(archive[ij[1]])], archive[ij[1]])
              /\ HasTimes(fs[PathOf(archive[ij[2]])], archive[ij[2]])

\* No entry is put at or below the path of a non-directory entry (other than
\* a repeated write of the same file), nor at or above the destination root.
ConflictFree(a) ==
    \A i \in 1..Len(a) :
        IsFileLike(a[i]) =>
            /\ PathOf(a[i]) \notin PrefixesOf(Dst)
            /\ \A j \in 1..Len(a) :
                  (a[j].Typeflag \notin MetaFlags
                      /\ PathOf(a[i]) \in PrefixesOf(PathOf(a[j])))
                    => (IsFileLike(a[j]) /\ PathOf(a[j]) = PathOf(a[i]))

\* The last entry of the given kind written to path p.
LastAt(a, p, isKind(_)) ==
    a[CHOOSE i \in 1..Len(a) :
        /\ isKind(a[i]) /\ PathOf(a[i]) = p
        /\ \A j \in (i + 1)..Len(a) : ~(isKind(a[j]) /\ PathOf(a[j]) = p)]

IsDirEntry(hdr) == hdr.Typeflag = TypeDir

\* C4 as amended: in directory mode, when a regular-file entry appears before
\* the directory entry that contains it and no call is failed by the reader
\* or the disk, untar succeeds unless the archive puts an entry at or below
\* the path of a non-directory entry; and when untar has succeeded the file
\* carries the times of the last file entry written to its path and the
\* later-declared directory the times of the last directory entry naming it,
\* never the time of extraction.
C4_FileBeforeItsDirectory ==
    (UntarReturned /\ dir /\ ~injected)
        => \A ij \in FileBeforeItsDir(archive) :
              LET file == PathOf(archive[ij[1]])
                  parent == PathOf(archive[ij[2]])
              IN  /\ ConflictFree(archive) => result = "ok"
                  /\ result = "ok" =>
                        /\ HasTimes(fs[file], LastAt(archive, file, IsFileLike))
                        /\ HasTimes(fs[parent], LastAt(archive, parent, IsDirEntry))

\* C4 witness: a file was extracted before the directory that contains it
\* was declared, and untar has returned success.
C4_Witness ==
    /\ UntarReturned /\ dir /\ result = "ok"
    /\ Len(archive) = 2
    /\ FileBeforeItsDir(archive) = {<<1, 2>>}
    /\ HasTimes(fs[PathOf(archive[2])], archive[2])
    /\ HasTimes(fs[PathOf(archive[1])], archive[1])

\* The directory entries of the archive in stream order, and the os.Chtimes
\* calls made on their paths.
DirEntries == SelectSeq(archive, IsDirEntry)
DirEntryPaths == {PathOf(DirEntries[n]) : n \in 1..Len(DirEntries)}
IsDirTimesCall(c) == c.op = "Chtimes" /\ c.path \in DirEntryPaths
DirTimesCalls == SelectSeq(log, IsDirTimesCall)

\* Every os.Chtimes of a declared directory comes after every other call.
DirTimesComeLast ==
    \A m, n \in 1..Len(log) :
        (IsDirTimesCall(log[m]) /\ ~IsDirTimesCall(log[n])) => n < m

\* The directory paths in the order in which they are first seen.
RECURSIVE FirstSeen(_, _)
FirstSeen(hdrs, seen) ==
    IF hdrs = <<>> THEN <<>>
    ELSE LET p == PathOf(Head(hdrs))
         IN  IF p \in seen THEN FirstSeen(Tail(hdrs), seen)
             ELSE <<p>> \o FirstSeen(Tail(hdrs), seen \cup {p})

\* C5 as claimed: in a successful directory-mode run every directory path
\* that is declared by a directory entry has its times applied exactly once,
\* after every creation and write of the run, in first-seen order.
C5_Original ==
    (UntarReturned /\ dir /\ result = "ok")
        => /\ DirTimesComeLast
           /\ [n \in 1..Len(DirTimesCalls) |-> DirTimesCalls[n].path]
                 = FirstSeen(DirEntries, {})

\* C5 as amended: in a successful directory-mode run the times of the
\* declared directories are applied once for each directory entry (a path
\* declared by several entries once for each of them), each with that
\* entry's access and modification time, in stream order, and all of them
\* after every creation and write of the run.
C5_DirTimesDeferred ==
    (UntarReturned /\ dir /\ result = "ok")
        => /\ DirTimesComeLast
           /\ Len(DirTimesCalls) = Len(DirEntries)
           /\ \A n \in 1..Len(DirEntries) :
                 /\ DirTimesCalls[n].path = PathOf(DirEntries[n])
                 /\ DirTimesCalls[n].atime = DirEntries[n].AccessTime
                 /\ DirTimesCalls[n].mtime = DirEntries[n].ModTime
                 /\ DirTimesCalls[n].ok

\* C5 witness: a successful run over two different directories, a file
\* having been written into the first after it was declared.
C5_Witness ==
    /\ UntarReturned /\ dir /\ result = "ok"
    /\ Len(DirEntries) = 2
    /\ PathOf(DirEntries[1]) # PathOf(DirEntries[2])
    /\ archive[1].Typeflag = TypeDir /\ archive[2].Typeflag = TypeReg
    /\ PathOf(archive[1]) = Dir(PathOf(archive[2]))
    /\ HasTimes(fs[PathOf(archive[1])], archive[1])

\* C6: when the reader reports end-of-stream on the first entry request,
\* untar fails with the 'empty archive' error in single-file mode and in
\* directory mode alike and has made no filesystem call.
C6_EmptyArchive ==
    (UntarReturned /\ archive = <<>> /\ result # "ReadError")
        => (result = "EmptyArchive" /\ UntarCalls = <<>>)

\* C6 witness: an archive without entries was refused in directory mode.
C6_Witness ==
    UntarReturned /\ archive = <<>> /\ dir /\ result = "EmptyArchive"

\* C7: the step that handles an extended or global extended header changes
\* nothing but the reader's position (filesystem, call log, done flag and
\* pending directory list stay as they are); no call ever names such an
\* entry's path; and an archive of nothing but such entries is empty.
AtMetaEntry ==
    pc = "Next" /\ pos < Len(archive) /\ archive[pos + 1].Typeflag \in MetaFlags

MetaPaths ==
    {Join(Dst, archive[i].Name) : i \in IndicesOf(archive, MetaFlags)}

C7_ExtendedHeadersSkipped ==
    /\ [][AtMetaEntry =>
            /\ fs' = fs /\ log' = log /\ done' = done /\ dirHdrs' = dirHdrs
            /\ (pos' = pos + 1 /\ result' = "none") \/ result' = "ReadError"]_tarVars
    /\ [](\A c \in 1..Len(log) : log[c].path \notin MetaPaths)
    /\ [](\A p \in MetaPaths : fs[p].kind = "none")
    /\ []((UntarReturned /\ archive # <<>> /\ ~injected
             /\ IndicesOf(archive, MetaFlags) = 1..Len(archive))
            => result = "EmptyArchive")

\* C7 witness: a header entry between a directory and a file has been
\* passed and the run has succeeded.
C7_Witness ==
    /\ UntarReturned /\ result = "ok"
    /\ Len(archive) = 3
    /\ archive[1].Typeflag = TypeDir
    /\ archive[2].Typeflag = TypeXGlobalHeader
    /\ archive[3].Typeflag = TypeReg

-----------------------------------------------------------------------------
(* Properties of MvnGetter.GetFile                                         *)

\* The group id with every "." turned into "/".
DotsToSlashes(g) == [i \in 1..Len(g) |-> IF g[i] = "." THEN "/" ELSE g[i]]

\* <base>/<group path>/<artifactId>/<version>
VersionDir(base, g, a, v) ==
    base \o <<"/">> \o DotsToSlashes(g) \o <<"/">> \o a \o <<"/">> \o v

TypeOrJar(t) == IF t = <<>> THEN <<"jar">> ELSE t

EndsInSnapshot(v) == v # <<>> /\ v[Len(v)] = "-SNAPSHOT"

\* C8: for a coordinate URL with groupId, artifactId and version, the
\* version not ending in -SNAPSHOT, a finished GetFile has called the
\* byte-fetch capability exactly once, with an empty query string and the
\* path <base>/<group path>/<artifactId>/<version>/<artifactId>-<version>.<type>
\* (type "jar" when none is given), and has created no temporary file; while
\* it runs no call has any other URL.
C8_ReleaseFetchedOnce ==
    \A base \in BasePaths, g \in GroupIds, a \in ArtifactIds,
       v \in Versions, t \in ArtTypes :
        (u = CoordinateUrl(base, g, a, v, t) /\ g # <<>> /\ a # <<>> /\ v # <<>>
            /\ ~EndsInSnapshot(v))
          => /\ tmpFile = "none"
             /\ Len(fetches) <= 1
             /\ mpc = "Exit" => Len(fetches) = 1
             /\ \A n \in 1..Len(fetches) :
                   /\ fetches[n].url.RawQuery = <<>>
                   /\ fetches[n].url.Host = u.Host
                   /\ fetches[n].url.Path =
                        VersionDir(base, g, a, v) \o <<"/">> \o a \o <<"-">> \o v
                            \o <<".">> \o TypeOrJar(t)

\* C8 witness: a release with a three-part group id and no type has been
\* downloaded from a repository with a base path.
C8_Witness ==
    /\ mpc = "Exit" /\ mresult = "ok" /\ Len(fetches) = 1
    /\ u = CoordinateUrl(<<"/", "repo">>, <<"a", ".", "b", ".", "c">>, <<"test">>,
                          <<"1.0">>, <<>>)

\* C9: for a coordinate URL whose version ends in -SNAPSHOT the first call
\* of the byte-fetch capability is for
\* <base>/<group path>/<artifactId>/<version>/maven-metadata.xml; a second
\* call is made only when that one has succeeded and the metadata lists at
\* least one snapshot version, and its path ends in
\* /<artifactId>-<value of the first listed version>.<type>; there is no
\* third call, and a run that could create its temporary file does make the
\* first call.
C9_SnapshotResolvedFirst ==
    \A base \in BasePaths, g \in GroupIds, a \in ArtifactIds,
       v \in Versions, t \in ArtTypes :
        (u = CoordinateUrl(base, g, a, v, t) /\ g # <<>> /\ a # <<>>
            /\ EndsInSnapshot(v))
          => /\ Len(fetches) <= 2
             /\ (mpc = "Exit" /\ mresult # "TempFileError") => Len(fetches) >= 1
             /\ Len(fetches) >= 1 =>
                   fetches[1].url.Path =
                       VersionDir(base, g, a, v) \o <<"/", "maven-metadata.xml">>
             /\ Len(fetches) = 2 =>
                   /\ fetches[1].ok
                   /\ Len(remote.versions) >= 1
                   /\ fetches[2].url.Path =
                        VersionDir(base, g, a, v) \o <<"/">> \o a \o <<"-">>
                            \o remote.versions[1].Value \o <<".">> \o TypeOrJar(t)

\* C9 witness: a snapshot has been downloaded from metadata that lists two
\* versions.
C9_Witness ==
    /\ mpc = "Exit" /\ mresult = "ok" /\ Len(fetches) = 2
    /\ Len(remote.versions) = 2

\* C10: when the metadata has been fetched and read and lists no snapshot
\* version, GetFile fails with the 'no snapshot versions' error and the
\* metadata fetch stays its only call of the byte-fetch capability.
C10_NoSnapshotVersions ==
    (mpc = "Exit" /\ tmpFile # "none" /\ Len(fetches) >= 1 /\ fetches[1].ok
        /\ remote.versions = <<>> /\ mresult # "ReadError")
      => (mresult = "NoSnapshotVersions" /\ Len(fetches) = 1)

\* C10 witness: well-formed metadata without versions has been refused.
C10_Witness ==
    /\ mpc = "Exit" /\ mresult = "NoSnapshotVersions"
    /\ remote.wellFormed /\ remote.versions = <<>>
    /\ Len(fetches) = 1 /\ tmpFile = "removed"

\* The error GetFile gives for the first of groupId, artifactId, version
\* that is empty.
FirstMissing(g, a, v) ==
    IF g = <<>> THEN "groupId is required"
    ELSE IF a = <<>> THEN "artifactId is required"
    ELSE "version is required"

\* C11: when groupId, artifactId or version is left out of the URL or given
\* with an empty value, GetFile ends with the error that names the first
\* missing one in the order groupId, artifactId, version, and up to then no
\* byte-fetch has been called and no temporary file has been created.
C11_MissingParameter ==
    \A base \in BasePaths, g \in GroupIds, a \in ArtifactIds,
       v \in Versions, t \in ArtTypes :
        (/\ u \in {CoordinateUrl(base, g, a, v, t),
                   CoordinateUrlBlank(base, g, a, v, t)}
         /\ (g = <<>> \/ a = <<>> \/ v = <<>>)
         /\ mpc \notin {"Get", "ExitGet"})
          => /\ mpc \in {"GetFile", "Exit"}
             /\ fetches = <<>>
             /\ tmpFile = "none"
             /\ mpc = "Exit" => mresult = FirstMissing(g, a, v)

\* C11 witness: a URL with "artifactId=" and "version=" both empty has been
\* refused for its artifactId.
C11_Witness ==
    /\ mpc = "Exit" /\ mresult = "artifactId is required"
    /\ u = CoordinateUrlBlank(<<"/", "repo">>, <<"org">>, <<>>, <<>>, <<"pom">>)
    /\ fetches = <<>>

\* C12: once parseLastestSnapshotVersion has returned (GetFile is about to
\* download the artifact or has ended), the temporary file it created exists
\* no more, whichever way it returned.
C12_TempFileRemoved ==
    mpc \in {"Download", "Exit"} => tmpFile # "exists"

\* The calls of the byte-fetch capability that fetch the metadata (into the
\* temporary file) and those that fetch the artifact.
MetadataFetches == {n \in 1..Len(fetches) : fetches[n].dst = <<"tmp", "/", "maven-metadata">>}
ArtifactFetches == (1..Len(fetches)) \ MetadataFetches

\* C13: in a run of GetFile the metadata and the artifact are each fetched
\* at most once; after a failed metadata fetch GetFile has ended with that
\* fetch's error and has not fetched the artifact; and once the artifact has
\* been fetched GetFile has ended with what that fetch returned, success or
\* its error.
C13_NoRetry ==
    /\ Cardinality(MetadataFetches) <= 1
    /\ Cardinality(ArtifactFetches) <= 1
    /\ \A n \in MetadataFetches :
          ~fetches[n].ok =>
              /\ mpc = "Exit" /\ mresult = "MetadataFetchError"
              /\ ArtifactFetches = {}
    /\ \A n \in ArtifactFetches :
          /\ n = Len(fetches)
          /\ mpc = "Exit"
          /\ mresult = IF fetches[n].ok THEN "ok" ELSE "ArtifactFetchError"

\* C13 witness: the metadata was fetched, then the artifact fetch failed and
\* GetFile returned its error.
C13_Witness ==
    /\ mpc = "Exit" /\ mresult = "ArtifactFetchError"
    /\ Len(fetches) = 2 /\ fetches[1].ok /\ ~fetches[2].ok
    /\ MetadataFetches = {1} /\ ArtifactFetches = {2}

\* What follows the last "/" of a path, and what precedes it.
LastElement(s) ==
    IF IndicesOfToken(s, "/") = {} THEN s
    ELSE SubSeq(s, Max(IndicesOfToken(s, "/")) + 1, Len(s))

BeforeLastSlash(s) ==
    IF IndicesOfToken(s, "/") = {} THEN <<".">>
    ELSE IF Max(IndicesOfToken(s, "/")) = 1 THEN <<"/">>
    ELSE SubSeq(s, 1, Max(IndicesOfToken(s, "/")) - 1)

\* The directory that holds the file or directory a path names: a
\* separator at the end of the path does not count.
ParentDirectory(s) ==
    IF Len(s) > 1 /\ s[Len(s)] = "/" THEN BeforeLastSlash(SubSeq(s, 1, Len(s) - 1))
    ELSE BeforeLastSlash(s)

\* The file of that name in directory d.
PlacedIn(d, name) ==
    IF d = <<".">> THEN name
    ELSE IF d = <<"/">> THEN d \o name
    ELSE d \o <<"/">> \o name

HasSlash(s) == IndicesOfToken(s, "/") # {}

\* The version the artifact is fetched with: the first listed snapshot
\* version for a snapshot, else the version of the URL.
ResolvedVersion(v) == IF EndsInSnapshot(v) THEN remote.versions[1].Value ELSE v

C15_GetUnsupported ==
    /\ [][mpc = "Get" =>
            /\ mpc' = "ExitGet"
            /\ mresult' = "MvnGetter does not support download folder."]_vars
    /\ [](mpc \in {"Get", "ExitGet"} =>
            /\ fetches = <<>>
            /\ tmpFile = "none"
            /\ fs = InitialFs(FALSE, FALSE)
            /\ log = <<>>)
    /\ [](mpc = "ExitGet" => mresult = "MvnGetter does not support download folder.")

\* C15 witness: Get has refused a well-formed snapshot URL.
C15_Witness ==
    /\ mpc = "ExitGet"
    /\ mresult = "MvnGetter does not support download folder."
    /\ u = CoordinateUrl(<<"/", "repo">>, <<"org", ".", "example">>, <<"test">>,
                          <<"1.0", Snapshot>>, <<"pom">>)
    /\ mdst = <<"/", "w", "/", "d", "/">>

-----------------------------------------------------------------------------
(* Properties of Decompress and of untar as a whole                        *)

\* untar has been entered: it is running, has returned, or has left a trace.
UntarInvoked ==
    \/ pc \in {"Next", "Fixup", "Close"}
    \/ pos > 0
    \/ UntarCalls # <<>>
    \/ result \in {"ok", "EmptyArchive", "ExpectedSingleFile", "MultipleFiles",
                   "ReadError"}

\* The MkdirAll of Decompress (dst, or dst's parent in single-file mode)
\* has failed; the source could not be opened.
PreMkdirFailed ==
    /\ log # <<>>
    /\ log[1].op = "MkdirAll" /\ log[1].phase = "decompress" /\ ~log[1].ok
OpenFailed == pc = "Exit" /\ ~PreMkdirFailed /\ handle = "none"

\* C16: when Decompress has returned after opening the source, the handle
\* is closed, whether untar succeeded or failed; and when the MkdirAll of
\* the pre-required directory or the open failed, untar has not been
\* entered and no handle was ever open.  A source that does not exist makes
\* the open fail.
C16_HandleClosed ==
    /\ pc = "Exit" => handle \in {"none", "closed"}
    /\ (pc = "Exit" /\ UntarInvoked) => handle = "closed"
    /\ UntarInvoked => (handle # "none" /\ ~PreMkdirFailed /\ fs[Src].kind = "file")
    /\ (PreMkdirFailed \/ OpenFailed) => (~UntarInvoked /\ handle = "none")
    /\ (pc = "Exit" /\ ~PreMkdirFailed /\ fs[Src].kind # "file") => result = "OpenError"

\* C16 witness: untar failed on a second file in single-file mode and the
\* handle has been closed.
C16_Witness ==
    /\ pc = "Exit" /\ result = "MultipleFiles" /\ handle = "closed" /\ ~dir

\* An entry has been materialized: untar has made a directory or created a
\* file for it.
Materialized ==
    \E n \in 1..Len(UntarCalls) :
        /\ UntarCalls[n].ok
        /\ UntarCalls[n].op \in {"MkdirAll", "Create"}
        /\ UntarCalls[n].phase = "extract"

\* untar has read the archive to its end and no reader or filesystem call
\* has failed.
ReachedEndUnfailed ==
    /\ UntarReturned
    /\ pos = Len(archive)
    /\ result \in {"ok", "EmptyArchive"}
    /\ \A n \in 1..Len(log) : log[n].ok

\* C17: untar ends with the 'empty archive' error exactly when it reaches
\* the end of the archive without having materialized an entry: a run that
\* has made a file or a directory from an entry and reaches the end succeeds,
\* with the times of every recorded directory applied.
C17_EmptyArchiveIffNothingMade ==
    /\ result = "EmptyArchive" => ~Materialized
    /\ (ReachedEndUnfailed /\ ~Materialized) => result = "EmptyArchive"
    /\ (ReachedEndUnfailed /\ Materialized) =>
          /\ result = "ok"
          /\ \A i \in 1..Len(dirHdrs) :
                \E n \in 1..Len(log) :
                    /\ log[n].op = "Chtimes" /\ log[n].phase = "fixup"
                    /\ log[n].path = Join(Dst, dirHdrs[i].Name)

\* untar (or Decompress before it) has returned an error.
ReturnedError == result \notin {"none", "ok"}

\* C18: a failure inside untar is returned at once.  A failed filesystem
\* call is the last call made and untar has returned an error; once an error
\* has been returned the filesystem and the call log change no more; a step
\* that ends with a reader error or with one of the two single-file errors
\* makes no filesystem call; unless the failure is itself one of the
\* deferred directory Chtimes, none of them has been made; and no step,
\* failing or not, removes a file or directory that exists.
C18_FailFast ==
    /\ [](\A n \in 1..Len(log) :
            ~log[n].ok => (n = Len(log) /\ ReturnedError /\ pc \in {"Close", "Exit"}))
    /\ [][ReturnedError => (fs' = fs /\ log' = log /\ result' = result)]_vars
    /\ [][(result = "none"
             /\ result' \in {"ReadError", "ExpectedSingleFile", "MultipleFiles"})
            => (fs' = fs /\ log' = log)]_vars
    /\ []((ReturnedError /\ log # <<>> /\ log[Len(log)].phase # "fixup")
            => \A n \in 1..Len(log) : log[n].phase # "fixup")
    /\ [][\A p \in AllPaths : fs[p].kind # "none" => fs'[p].kind = fs[p].kind]_vars

\* C18 witness: in directory mode a file was written and a directory made
\* and recorded, then the Create of a further file failed; the first file
\* and the directory are still there and no deferred Chtimes was made.
C18_Witness ==
    /\ dir /\ pc = "Exit" /\ result = "FsError"
    /\ Len(dirHdrs) >= 1 /\ done
    /\ log[Len(log)].op = "Create" /\ ~log[Len(log)].ok
    /\ \E n \in 1..(Len(log) - 1) : log[n].op = "Create" /\ fs[log[n].path].kind = "file"
    /\ \A n \in 1..Len(log) : log[n].phase # "fixup"

\* The calls that create, write or stamp a file.
FileOps == {"Create", "Copy", "Chmod", "Chtimes"}

\* C19: in single-file mode, whatever the entries are, untar calls Create at
\* most once, every call it makes names dst itself, the pending directory
\* list is empty at all times, no call belongs to the deferred phase, and no
\* path below dst or beside it comes into being.
C19_SingleFileOnlyDst ==
    ~dir =>
        /\ Cardinality({n \in 1..Len(UntarCalls) : UntarCalls[n].op = "Create"}) <= 1
        /\ \A n \in 1..Len(UntarCalls) :
              /\ UntarCalls[n].op \in FileOps
              /\ UntarCalls[n].path = Dst
              /\ UntarCalls[n].phase = "extract"
        /\ dirHdrs = <<>>
        /\ \A p \in AllPaths \ {<<>>, Src, Dir(Dst), Dst} : fs[p].kind = "none"

\* C19 witness: the first entry, named a/f, has been written to dst and a
\* second file entry has been refused.
C19_Witness ==
    /\ ~dir /\ pc = "Exit" /\ result = "MultipleFiles"
    /\ archive[1].Name = <<"a", "f">> /\ archive[1].Typeflag = TypeReg
    /\ fs[Dst].kind = "file" /\ fs[Dst].content = archive[1].Data
    /\ Len(UntarCalls) = 4

\* Path p is the destination root or lies below it.
InsideDst(p) == Len(p) >= Len(Dst) /\ SubSeq(p, 1, Len(Dst)) = Dst

\* C20: in directory mode every path that untar creates, writes, chmods or
\* chtimes is the destination root or lies below it, whatever the entry
\* names are, names with ".." included; outside the root nothing comes into
\* being.
C20_InsideDestination ==
    dir =>
        /\ \A n \in 1..Len(UntarCalls) : InsideDst(UntarCalls[n].path)
        /\ \A p \in AllPaths \ {<<>>, Src, Dir(Dst)} :
              fs[p].kind # "none" => InsideDst(p)

====
